---- MODULE Spec2Model ----
(***************************************************************************)
(* FlashLearn: the SM-2 spaced-repetition scheduler.                       *)
(*                                                                         *)
(*   client  src/client/src/App.tsx    calculateNextReview, initializeItem *)
(*   server  src/server/routes.ts      POST /api/study/progress            *)
(*           src/server/storage.ts     the user_flashcard_progress store   *)
(*                                                                         *)
(* JavaScript numbers are IEEE-754 binary64.  The scheduler multiplies an  *)
(* integer interval by a fractional easiness and rounds, so the model      *)
(* carries binary64 values exactly: a number is four 19-bit limbs counting *)
(* units of 2^-60, and every arithmetic operation is the exact operation   *)
(* followed by rounding to 53 significant bits, ties to even.              *)
(***************************************************************************)
EXTENDS Integers, Sequences, FiniteSets, TLC

(***************************************************************************)
(* binary64 arithmetic                                                     *)
(***************************************************************************)
Limb == 2^19

\* carry propagation over four limbs, least significant first
Norm(t) ==
    LET c0 == t[1] \div Limb
        s1 == t[2] + c0
        c1 == s1 \div Limb
        s2 == t[3] + c1
        c2 == s2 \div Limb
    IN  <<t[1] % Limb, s1 % Limb, s2 % Limb, t[4] + c2>>

FZero == <<0, 0, 0, 0>>

FAdd(x, y) == Norm(<<x[1] + y[1], x[2] + y[2], x[3] + y[3], x[4] + y[4]>>)

\* x < y
FLess(x, y) ==
    \/ x[4] < y[4]
    \/ x[4] = y[4] /\ x[3] < y[3]
    \/ x[4] = y[4] /\ x[3] = y[3] /\ x[2] < y[2]
    \/ x[4] = y[4] /\ x[3] = y[3] /\ x[2] = y[2] /\ x[1] < y[1]

\* x - y for x >= y
FSub(x, y) ==
    LET d0 == x[1] - y[1]
        b0 == IF d0 < 0 THEN 1 ELSE 0
        d1 == x[2] - y[2] - b0
        b1 == IF d1 < 0 THEN 1 ELSE 0
        d2 == x[3] - y[3] - b1
        b2 == IF d2 < 0 THEN 1 ELSE 0
    IN  <<d0 + b0 * Limb, d1 + b1 * Limb, d2 + b2 * Limb, x[4] - y[4] - b2>>

\* exact product with an integer 0 <= n < 2048
FMulInt(x, n) == Norm(<<x[1] * n, x[2] * n, x[3] * n, x[4] * n>>)

\* position of the leading bit of h >= 1
RECURSIVE Log2(_)
Log2(h) == IF h <= 1 THEN 0 ELSE 1 + Log2(h \div 2)

\* Round to 53 significant bits, ties to even; sticky says that the exact
\* value lies strictly above x (a truncated quotient).  Values of this model
\* lie in [2^-6, 2^11), where the last kept bit is one of bits 2..18 of the
\* lowest limb; smaller values arise only as exact differences.
Round53(x, sticky) ==
    LET hi == x[4] * 8 + x[3] \div 65536
    IN  IF hi = 0 THEN x
        ELSE LET g    == Log2(hi) + 2
                 unit == 2^g
                 low  == x[1] % unit
                 half == unit \div 2
                 odd  == (x[1] \div unit) % 2 = 1
                 up   == \/ low > half
                         \/ low = half /\ (sticky \/ odd)
             IN  Norm(<<x[1] - low + (IF up THEN unit ELSE 0), x[2], x[3], x[4]>>)

\* the binary64 quotient n / d of two small integers, correctly rounded; also
\* the value of a decimal literal n/d
FDiv(n, d) ==
    LET t3 == n * 8
        t2 == (t3 % d) * Limb
        t1 == (t2 % d) * Limb
        t0 == (t1 % d) * Limb
    IN  Round53(<<t0 \div d, t1 \div d, t2 \div d, t3 \div d>>, t0 % d # 0)

FMul(x, n) == Round53(FMulInt(x, n), FALSE)

FMax(x, y) == IF FLess(x, y) THEN y ELSE x

\* Math.round: the nearest integer, a tie going up
MathRound(x) == x[4] \div 8 + (IF x[4] % 8 >= 4 THEN 1 ELSE 0)

(***************************************************************************)
(* The SM-2 update                                                         *)
(***************************************************************************)
Lit01  == FDiv(1, 10)
Lit008 == FDiv(8, 100)
Lit002 == FDiv(2, 100)
Lit13  == FDiv(13, 10)

\* variant: without the quadratic term
QualityDelta_Linear(quality) ==
    LET k == 5 - quality
        p == FMul(Lit008, k)
    IN  IF FLess(Lit01, p)
        THEN [neg |-> TRUE,  mag |-> Round53(FSub(p, Lit01), FALSE)]
        ELSE [neg |-> FALSE, mag |-> Round53(FSub(Lit01, p), FALSE)]

\* variant: the distance counted from 6
QualityDelta_From6(quality) ==
    LET k == 6 - quality
        p == FMul(Round53(FAdd(Lit008, FMul(Lit002, k)), FALSE), k)
    IN  IF FLess(Lit01, p)
        THEN [neg |-> TRUE,  mag |-> Round53(FSub(p, Lit01), FALSE)]
        ELSE [neg |-> FALSE, mag |-> Round53(FSub(Lit01, p), FALSE)]

\* 0.1 - (5 - quality) * (0.08 + (5 - quality) * 0.02), as sign and magnitude
QualityDelta(quality) ==
    LET k == 5 - quality
        p == FMul(Round53(FAdd(Lit008, FMul(Lit002, k)), FALSE), k)
    IN  IF FLess(Lit01, p)
        THEN [neg |-> TRUE,  mag |-> Round53(FSub(p, Lit01), FALSE)]
        ELSE [neg |-> FALSE, mag |-> Round53(FSub(Lit01, p), FALSE)]

\* variant: the sum without the floor of 1.3
NewEFactor_NoFloor(e, quality) ==
    LET d == QualityDelta(quality)
    IN  IF d.neg
        THEN IF FLess(e, d.mag) THEN FZero
             ELSE Round53(FSub(e, d.mag), FALSE)
        ELSE Round53(FAdd(e, d.mag), FALSE)

\* Math.max(1.3, e + delta); a negative sum is below 1.3
NewEFactor(e, quality) ==
    LET d == QualityDelta(quality)
    IN  IF d.neg
        THEN IF FLess(e, d.mag) THEN Lit13
             ELSE FMax(Lit13, Round53(FSub(e, d.mag), FALSE))
        ELSE FMax(Lit13, Round53(FAdd(e, d.mag), FALSE))

\* variant: the reset only below quality 2
NewRepetitions_ResetBelow2(repetitions, quality) ==
    IF quality < 2 THEN 0 ELSE repetitions + 1

\* variant: quality 3 counted as a failure
NewRepetitions_ResetAt3(repetitions, quality) ==
    IF quality <= 3 THEN 0 ELSE repetitions + 1

NewRepetitions(repetitions, quality) ==
    IF quality < 3 THEN 0 ELSE repetitions + 1

\* variant: the second repetition grows by the easiness instead of being 6
NewInterval_NoSecondStep(interval, newRepetitions, newEFactor, quality) ==
    IF quality < 3 THEN 1
    ELSE IF newRepetitions = 1 THEN 1
    ELSE MathRound(FMul(newEFactor, interval))

\* variant: a failure is not singled out
NewInterval_NoFailureReset(interval, newRepetitions, newEFactor, quality) ==
    IF newRepetitions = 1 THEN 1
    ELSE IF newRepetitions = 2 THEN 6
    ELSE MathRound(FMul(newEFactor, interval))

\* variant: the first repetition grows by the easiness instead of being 1
NewInterval_NoFirstStep(interval, newRepetitions, newEFactor, quality) ==
    IF quality < 3 THEN 1
    ELSE IF newRepetitions = 2 THEN 6
    ELSE MathRound(FMul(newEFactor, interval))

\* variant: from the third repetition on the interval stays as it is
NewInterval_Stalls(interval, newRepetitions, newEFactor, quality) ==
    IF quality < 3 THEN 1
    ELSE IF newRepetitions = 1 THEN 1
    ELSE IF newRepetitions = 2 THEN 6
    ELSE interval

NewInterval(interval, newRepetitions, newEFactor, quality) ==
    IF quality < 3 THEN 1
    ELSE IF newRepetitions = 1 THEN 1
    ELSE IF newRepetitions = 2 THEN 6
    ELSE MathRound(FMul(newEFactor, interval))

\* quality = Math.max(0, Math.min(5, quality))
ClampQuality(quality) ==
    IF quality > 5 THEN 5 ELSE IF quality < 0 THEN 0 ELSE quality

\* variant: the interval grown by the easiness the item had
calculateNextReview_OldEFactor(it, quality0) ==
    LET quality        == ClampQuality(quality0)
        newRepetitions == NewRepetitions(it.repetitions, quality)
        newEFactor     == NewEFactor(it.eFactor, quality)
    IN  [eFactor     |-> newEFactor,
         interval    |-> NewInterval(it.interval, newRepetitions, it.eFactor, quality),
         repetitions |-> newRepetitions]

calculateNextReview(it, quality0) ==
    LET quality        == ClampQuality(quality0)
        newRepetitions == NewRepetitions(it.repetitions, quality)
        newEFactor     == NewEFactor(it.eFactor, quality)
    IN  [eFactor     |-> newEFactor,
         interval    |-> NewInterval(it.interval, newRepetitions, newEFactor, quality),
         repetitions |-> newRepetitions]

initializeItem == [eFactor |-> FDiv(25, 10), interval |-> 0, repetitions |-> 0]

\* variant: a failed recall leaves the easiness as it was
ServerUpdate_FailureKeepsEFactor(progress, quality) ==
    LET oldEFactor     == FDiv(progress.e_factor, 100)
        newRepetitions == NewRepetitions(progress.repetitions, quality)
        newEFactor     == IF quality < 3 THEN oldEFactor
                          ELSE NewEFactor(oldEFactor, quality)
    IN  [e_factor    |-> MathRound(FMul(newEFactor, 100)),
         interval    |-> NewInterval(progress.interval, newRepetitions, newEFactor, quality),
         repetitions |-> newRepetitions]

\* the handler's computation on the stored row: e_factor is kept in hundredths
ServerUpdate(progress, quality) ==
    LET oldEFactor     == FDiv(progress.e_factor, 100)
        newRepetitions == NewRepetitions(progress.repetitions, quality)
        newEFactor     == NewEFactor(oldEFactor, quality)
    IN  [e_factor    |-> MathRound(FMul(newEFactor, 100)),
         interval    |-> NewInterval(progress.interval, newRepetitions, newEFactor, quality),
         repetitions |-> newRepetitions]

(***************************************************************************)
(* Bounds                                                                  *)
(***************************************************************************)
MaxClock == 2      \* the clock stops at this tick
DayTicks == 2      \* clock ticks in a day
MaxSteps == 7      \* reviews in one sequence from the default record
MaxFnSteps == 2    \* reviews in one sequence from an arbitrary record
MaxInterval == 200 \* no further review of a record whose interval is longer

Users   == {"u1"}
Cards   == {"c1", "c2"}
Quality == 0..5
Reqs    == {1, 2}
NoTime  == 0 - 1

(***************************************************************************)
(* State                                                                   *)
(***************************************************************************)
VARIABLES
    clock,      \* new Date(), in ticks
    table,      \* user_flashcard_progress: a set of rows
    nextId,     \* the SERIAL id of the next inserted row
    users,      \* users: daily_progress and last_studied of each user
    stats,      \* progress_stats: a set of rows
    req,        \* the handler of each request: position and locals
    log,        \* history: the updates persisted for each (user, card), in order
    item,       \* the client's SpacedRepetitionItem
    last,       \* history: the quality and the inputs of the last review in
                \* a sequence of reviews, the number of reviews so far,
                \* whether one of them was an acceptable recall, whether all
                \* of them had quality 5, and the status of the last answer
    heap,       \* the client's objects: the item at each reference
    call,       \* history: the last call of a client function, its argument
                \* and result references, and the heap and table before it
    due,        \* the handler of GET /api/study/due: position, user, the
                \* instant it read, its answer and the table it was taken from
    check,      \* the handler of POST /api/streak/check: position, user, the
                \* user row it read, the update it sends and its answer
    hist        \* history of the streak: the last finished check, and what
                \* was done today and yesterday

vars == <<clock, table, nextId, users, stats, req, log, item, last, heap, call,
          due, check, hist>>

AddDays(t, n) == t + n * DayTicks

\* the row of (user, card): .single() yields a row only when exactly one matches
getUserFlashcardProgress(tbl, userId, flashcardId) ==
    LET m == {r \in tbl : r.user_id = userId /\ r.flashcard_id = flashcardId}
    IN  IF Cardinality(m) = 1 THEN m ELSE {}

\* UNIQUE(user_id, flashcard_id)
UniqueViolation(tbl, userId, flashcardId) ==
    \E r \in tbl : r.user_id = userId /\ r.flashcard_id = flashcardId

\* variant: the new row falls due a day after its creation
NewProgressRow_DueTomorrow(id, userId, flashcardId, nextReview, lastReviewed) ==
    [id |-> id, user_id |-> userId, flashcard_id |-> flashcardId,
     e_factor |-> 250, interval |-> 0, repetitions |-> 0,
     next_review |-> nextReview + DayTicks, last_reviewed |-> lastReviewed]

\* the row inserted by createUserFlashcardProgress for the handler's defaults
NewProgressRow(id, userId, flashcardId, nextReview, lastReviewed) ==
    [id |-> id, user_id |-> userId, flashcard_id |-> flashcardId,
     e_factor |-> 250, interval |-> 0, repetitions |-> 0,
     next_review |-> nextReview, last_reviewed |-> lastReviewed]

\* variant: the update without its WHERE clause
updateUserFlashcardProgress_AllRows(tbl, id, data) ==
    {[r EXCEPT !.e_factor = data.e_factor, !.interval = data.interval,
               !.repetitions = data.repetitions,
               !.next_review = data.next_review,
               !.last_reviewed = data.last_reviewed] : r \in tbl}

\* UPDATE user_flashcard_progress SET data WHERE id = id
updateUserFlashcardProgress(tbl, id, data) ==
    {IF r.id = id
     THEN [r EXCEPT !.e_factor = data.e_factor, !.interval = data.interval,
                    !.repetitions = data.repetitions,
                    !.next_review = data.next_review,
                    !.last_reviewed = data.last_reviewed]
     ELSE r : r \in tbl}

\* variant: the due date counted with the interval the row had
UpdateData_OldInterval(progress, quality, now1, now2) ==
    LET u == ServerUpdate(progress, quality)
    IN  [e_factor |-> u.e_factor, interval |-> u.interval,
         repetitions |-> u.repetitions,
         next_review |-> AddDays(now1, progress.interval),
         last_reviewed |-> now2]

\* the data the handler sends: the SM-2 result, the due date counted from the
\* first clock reading and last_reviewed taken from the second
UpdateData(progress, quality, now1, now2) ==
    LET u == ServerUpdate(progress, quality)
    IN  [e_factor |-> u.e_factor, interval |-> u.interval,
         repetitions |-> u.repetitions,
         next_review |-> AddDays(now1, u.interval),
         last_reviewed |-> now2]

IdleReq == [pc |-> "idle", user |-> "u1", card |-> "c1", quality |-> 0,
            progress |-> {}, data |-> {}, now |-> 0, user_row |-> {},
            status |-> 0]

NoCall == [fn |-> "none", arg |-> 0, ret |-> 0, heap |-> <<>>, table |-> {}]

IdleDue == [pc |-> "idle", user |-> "u1", now |-> 0, result |-> {},
            table |-> {}]

IdleCheck == [pc |-> "idle", user |-> "u1", user_row |-> {}, data |-> {},
              today |-> 0, streak |-> 0, streakUpdated |-> FALSE,
              streakBroken |-> FALSE]

NoHist == [prevToday |-> NoTime, prevStreak |-> 0,
           reviewed |-> FALSE, checked |-> FALSE,
           reviewedYesterday |-> FALSE, streakYesterday |-> 0]

NoLast == [quality |-> 0 - 1, item |-> initializeItem, progress |-> {},
           steps |-> 0, accepted |-> FALSE, allFive |-> TRUE, status |-> 0,
           persisted |-> FALSE]

\* createUser: streak 0, daily_progress 0, last_studied null
NewUser == [streak |-> 0, daily_progress |-> 0, last_studied |-> NoTime]

InitUsers == [u \in Users |-> NewUser]

Init ==
    /\ clock = 0
    /\ table = {}
    /\ nextId = 1
    /\ users = InitUsers
    /\ stats = {}
    /\ req = [r \in Reqs |-> IdleReq]
    /\ log = [k \in Users \X Cards |-> <<>>]
    /\ item = initializeItem
    /\ last = NoLast
    /\ heap = <<>>
    /\ call = NoCall
    /\ due = IdleDue
    /\ check = IdleCheck
    /\ hist = NoHist

seqVars == <<item, last, heap, call, due, check, hist>>

(***************************************************************************)
(* POST /api/study/progress, one action for each await                     *)
(***************************************************************************)
\* the status the first lines of the handler decide on: 401 without a
\* session, 400 when flashcardId or quality is not a number or quality is
\* outside 0..5, and 200 for a request that goes on
Validate(authenticated, flashcardIdIsNumber, qualityIsNumber, quality) ==
    IF ~authenticated THEN 401
    ELSE IF ~flashcardIdIsNumber \/ ~qualityIsNumber
            \/ quality < 0 \/ quality > 5 THEN 400
    ELSE 200

\* variant: the user's progress is counted before the request is looked at
Reject_CountsFirst(r, u, authenticated, flashcardIdIsNumber, qualityIsNumber, q) ==
    /\ req[r].pc = "idle"
    /\ \A r2 \in Reqs : r2 < r => req[r2].pc # "idle"
    /\ Validate(authenticated, flashcardIdIsNumber, qualityIsNumber, q) # 200
    /\ req' = [req EXCEPT ![r] = [IdleReq EXCEPT !.pc = "done", !.status =
                  Validate(authenticated, flashcardIdIsNumber, qualityIsNumber, q)]]
    /\ users' = [users EXCEPT ![u] = [@ EXCEPT !.daily_progress = @ + 1]]
    /\ UNCHANGED <<clock, table, nextId, stats, log, seqVars>>

\* the request is answered 401 or 400 before any call of the store
Reject(r, u, authenticated, flashcardIdIsNumber, qualityIsNumber, q) ==
    /\ req[r].pc = "idle"
    /\ \A r2 \in Reqs : r2 < r => req[r2].pc # "idle"
    /\ Validate(authenticated, flashcardIdIsNumber, qualityIsNumber, q) # 200
    /\ req' = [req EXCEPT ![r] = [IdleReq EXCEPT !.pc = "done", !.status =
                  Validate(authenticated, flashcardIdIsNumber, qualityIsNumber, q)]]
    /\ UNCHANGED <<clock, table, nextId, users, stats, log, seqVars>>

\* the request passes authentication and validation; the lookup is sent
\* (requests are numbered in the order they arrive)
Begin(r, u, c, q) ==
    /\ req[r].pc = "idle"
    /\ Validate(TRUE, TRUE, TRUE, q) = 200
    /\ \A r2 \in Reqs : r2 < r => req[r2].pc # "idle"
    /\ req' = [req EXCEPT ![r] = [@ EXCEPT !.pc = "get", !.user = u,
                                           !.card = c, !.quality = q]]
    /\ UNCHANGED <<clock, table, nextId, users, stats, log, seqVars>>

\* getUserFlashcardProgress answers; without a row the insert is prepared,
\* next_review and last_reviewed being two readings of the clock
Get(r, gap) ==
    /\ req[r].pc = "get"
    /\ clock + gap <= MaxClock
    /\ LET found == getUserFlashcardProgress(table, req[r].user, req[r].card)
       IN  IF found # {}
           THEN /\ req' = [req EXCEPT ![r] = [@ EXCEPT !.pc = "compute",
                                                      !.progress = found]]
                /\ gap = 0
                /\ UNCHANGED clock
           ELSE /\ req' = [req EXCEPT ![r] = [@ EXCEPT !.pc = "create",
                               !.data = {[next_review |-> clock,
                                          last_reviewed |-> clock + gap]}]]
                /\ clock' = clock + gap
    /\ UNCHANGED <<table, nextId, users, stats, log, seqVars>>

\* the insert is applied; a second row for the pair is refused and the
\* handler answers 500
Create(r) ==
    /\ req[r].pc = "create"
    /\ IF UniqueViolation(table, req[r].user, req[r].card)
       THEN /\ req' = [req EXCEPT ![r] = [IdleReq EXCEPT !.pc = "done",
                                                             !.status = 500]]
            /\ UNCHANGED <<table, nextId>>
       ELSE LET d == CHOOSE x \in req[r].data : TRUE
                n == NewProgressRow(nextId, req[r].user, req[r].card,
                                    d.next_review, d.last_reviewed)
            IN  /\ table' = table \cup {n}
                /\ nextId' = nextId + 1
                /\ req' = [req EXCEPT ![r] = [@ EXCEPT !.pc = "compute",
                                                       !.progress = {n}]]
    /\ UNCHANGED <<clock, users, stats, log, seqVars>>

\* the SM-2 computation on the row the handler holds; the clock is read for
\* the due date and again for last_reviewed
Compute(r, gap) ==
    /\ req[r].pc = "compute"
    /\ clock + gap <= MaxClock
    /\ LET p == CHOOSE x \in req[r].progress : TRUE
       IN  req' = [req EXCEPT ![r] = [@ EXCEPT !.pc = "update", !.now = clock,
                       !.data = {UpdateData(p, req[r].quality, clock, clock + gap)}]]
    /\ clock' = clock + gap
    /\ UNCHANGED <<table, nextId, users, stats, log, seqVars>>

\* updateUserFlashcardProgress is applied to the row with the held id
Update(r) ==
    /\ req[r].pc = "update"
    /\ LET p == CHOOSE x \in req[r].progress : TRUE
           d == CHOOSE x \in req[r].data : TRUE
       IN  /\ table' = updateUserFlashcardProgress(table, p.id, d)
           /\ log' = [log EXCEPT ![<<req[r].user, req[r].card>>] =
                          Append(@, [quality |-> req[r].quality, t |-> req[r].now])]
    /\ req' = [req EXCEPT ![r] = [@ EXCEPT !.pc = "getUser", !.progress = {},
                                           !.data = {}, !.now = 0]]
    /\ UNCHANGED <<clock, nextId, users, stats, seqVars>>

\* getUser answers
GetUser(r) ==
    /\ req[r].pc = "getUser"
    /\ req' = [req EXCEPT ![r] = [@ EXCEPT !.pc = "updateUser",
                                           !.user_row = {users[req[r].user]}]]
    /\ UNCHANGED <<clock, table, nextId, users, stats, log, seqVars>>

\* updateUser writes daily_progress + 1 of the user it read, and last_studied
UpdateUser(r) ==
    /\ req[r].pc = "updateUser"
    /\ LET u == CHOOSE x \in req[r].user_row : TRUE
       IN  users' = [users EXCEPT ![req[r].user] =
                        [@ EXCEPT !.daily_progress = u.daily_progress + 1,
                                  !.last_studied = clock]]
    /\ req' = [req EXCEPT ![r] = [@ EXCEPT !.pc = "stats", !.user_row = {}]]
    /\ UNCHANGED <<clock, table, nextId, stats, log, seqVars>>

\* updateTodayStats: the upsert resolves conflicts on the primary key only,
\* so a second row for (user_id, date) is refused and the result is ignored
UpdateTodayStats(r) ==
    /\ req[r].pc = "stats"
    /\ LET today == clock \div DayTicks
           s == [user_id |-> req[r].user, date |-> today, cards_reviewed |-> 1,
                 xp_earned |-> IF req[r].quality >= 3 THEN 10 ELSE 5]
       IN  IF \E x \in stats : x.user_id = s.user_id /\ x.date = s.date
           THEN UNCHANGED stats
           ELSE stats' = stats \cup {s}
    /\ req' = [req EXCEPT ![r] = [IdleReq EXCEPT !.pc = "done", !.status = 200]]
    /\ UNCHANGED <<clock, table, nextId, users, log, seqVars>>

Tick ==
    /\ clock < MaxClock
    /\ clock' = clock + 1
    /\ UNCHANGED <<table, nextId, users, stats, req, log, seqVars>>

Next ==
    \/ \E r \in Reqs :
          /\ req[r].pc = "idle"
          /\ \E u \in Users, c \in Cards, q \in Quality : Begin(r, u, c, q)
    \/ \E r \in Reqs :
          /\ req[r].pc = "idle"
          /\ \E u \in Users, a, f, n \in BOOLEAN, q \in (0 - 1)..6 :
                Reject(r, u, a, f, n, q)
    \/ \E r \in Reqs, gap \in 0..1 : Get(r, gap)
    \/ \E r \in Reqs : Create(r)
    \/ \E r \in Reqs, gap \in 0..1 : Compute(r, gap)
    \/ \E r \in Reqs : Update(r)
    \/ \E r \in Reqs : GetUser(r)
    \/ \E r \in Reqs : UpdateUser(r)
    \/ \E r \in Reqs : UpdateTodayStats(r)
    \/ Tick

Spec == Init /\ [][Next]_vars

(***************************************************************************)
(* Sequences of reviews of one card, no other request in flight: the       *)
(* handler runs from its first line to its last, and the client applies    *)
(* calculateNextReview to its own item with the same quality.              *)
(***************************************************************************)
\* quality < 0 || quality > 5 is answered 400 before anything is read
InvalidQuality(q) == q < 0 \/ q > 5

\* the whole handler; updateOk tells whether updateUserFlashcardProgress
\* persists the row or meets an error and returns undefined
StudyProgressWith(u, c, q, updateOk) ==
    LET found    == getUserFlashcardProgress(table, u, c)
        created  == NewProgressRow(nextId, u, c, clock, clock)
        progress == IF found = {} THEN created ELSE CHOOSE x \in found : TRUE
        tbl      == IF found = {} THEN table \cup {created} ELSE table
        today    == clock \div DayTicks
        s        == [user_id |-> u, date |-> today, cards_reviewed |-> 1,
                     xp_earned |-> IF q >= 3 THEN 10 ELSE 5]
    IN  IF InvalidQuality(q)
        THEN /\ UNCHANGED <<table, nextId, log, users, stats>>
             /\ last' = [quality |-> q, item |-> item, progress |-> found,
                         steps |-> last.steps + 1, accepted |-> last.accepted,
                         allFive |-> FALSE, status |-> 400,
                         persisted |-> FALSE]
        ELSE /\ table' = IF updateOk
                         THEN updateUserFlashcardProgress(tbl, progress.id,
                                  UpdateData(progress, q, clock, clock))
                         ELSE tbl
             /\ nextId' = IF found = {} THEN nextId + 1 ELSE nextId
             /\ log' = IF updateOk
                       THEN [log EXCEPT ![<<u, c>>] =
                                <<[quality |-> q, t |-> clock]>>]
                       ELSE log
             /\ users' = [users EXCEPT ![u] =
                             [@ EXCEPT !.daily_progress = @ + 1,
                                       !.last_studied = clock]]
             /\ stats' = IF \E x \in stats : x.user_id = u /\ x.date = today
                         THEN stats ELSE stats \cup {s}
             /\ last' = [quality |-> q, item |-> item, progress |-> {progress},
                         steps |-> last.steps + 1,
                         accepted |-> last.accepted \/ q >= 3,
                         allFive |-> last.allFive /\ q = 5, status |-> 200,
                         persisted |-> updateOk]

StudyProgress(u, c, q) == StudyProgressWith(u, c, q, TRUE)

Review(q, bound) ==
    /\ last.steps < bound
    /\ item.interval <= MaxInterval
    /\ \A r \in table : r.interval <= MaxInterval
    /\ StudyProgress("u1", "c1", q)
    /\ item' = calculateNextReview(item, q)
    /\ call' = NoCall
    /\ UNCHANGED <<clock, req, heap, due, check, hist>>

NextSeq == \E q \in Quality : Review(q, MaxSteps)

SpecSeq == Init /\ [][NextSeq]_vars

\* the same sequences from an arbitrary record
FnEFactors    == {130, 138, 191, 230, 244, 250, 266, 280}
FnIntervals   == {0, 1, 6, 15, 50, 75, 85}
FnRepetitions == {0, 1, 2, 3, 5}

InitFn ==
    /\ clock = 0
    /\ nextId = 2
    /\ users = InitUsers
    /\ stats = {}
    /\ req = [r \in Reqs |-> IdleReq]
    /\ log = [k \in Users \X Cards |-> <<>>]
    /\ last = NoLast
    /\ heap = <<>>
    /\ call = NoCall
    /\ due = IdleDue
    /\ check = IdleCheck
    /\ hist = NoHist
    /\ \E e \in FnEFactors, i \in FnIntervals, n \in FnRepetitions :
          /\ table = {[id |-> 1, user_id |-> "u1", flashcard_id |-> "c1",
                       e_factor |-> e, interval |-> i, repetitions |-> n,
                       next_review |-> AddDays(0, i), last_reviewed |-> 0]}
          /\ item = [eFactor |-> FDiv(e, 100), interval |-> i, repetitions |-> n]

NextFn == \E q \in Quality : Review(q, MaxFnSteps)

SpecFn == InitFn /\ [][NextFn]_vars

\* the first reviews of a card from the default record, the clock moving
MaxScenarioSteps == 3

NextScenario ==
    \/ \E q \in Quality : Review(q, MaxScenarioSteps)
    \/ Tick

SpecScenario == Init /\ [][NextScenario]_vars

\* reviews of one card during which the store may fail to apply the update
MaxFaultSteps == 3

ReviewWithFaults(q, updateOk) ==
    /\ last.steps < MaxFaultSteps
    /\ \A r \in table : r.interval <= MaxInterval
    /\ StudyProgressWith("u1", "c1", q, updateOk)
    /\ UNCHANGED <<clock, req, item, heap, call, due, check, hist>>

NextFault ==
    \/ \E q \in Quality, updateOk \in BOOLEAN : ReviewWithFaults(q, updateOk)
    \/ Tick

SpecFault == Init /\ [][NextFault]_vars

\* the same with any integer sent as quality
RawQuality == (0 - 2)..7

NextRaw == \E q \in RawQuality : Review(q, MaxFnSteps)

SpecRaw == InitFn /\ [][NextRaw]_vars

(***************************************************************************)
(* The client's functions on objects: an object literal is a new object,   *)
(* a reference is its position in the heap.                                *)
(***************************************************************************)
MaxObjects == 3

\* the qualities passed by the callers: one out of range, two acceptable
ClientQuality == {0 - 1, 3, 5}

\* variant: one shared default object handed out by every call
AllocInitializeItem_Shared(h) ==
    IF h = <<>> THEN [heap |-> <<initializeItem>>, ret |-> 1]
    ELSE [heap |-> h, ret |-> 1]

\* return { eFactor: 2.5, interval: 0, repetitions: 0 }
AllocInitializeItem(h) ==
    [heap |-> Append(h, initializeItem), ret |-> Len(h) + 1]

\* variant: the new values written into the argument, which is returned
AllocCalculateNextReview_InPlace(h, ref, quality) ==
    [heap |-> [h EXCEPT ![ref] = calculateNextReview(h[ref], quality)],
     ret |-> ref]

\* return { eFactor: newEFactor, interval: newInterval, repetitions: ... }
AllocCalculateNextReview(h, ref, quality) ==
    [heap |-> Append(h, calculateNextReview(h[ref], quality)),
     ret |-> Len(h) + 1]

CallInitializeItem ==
    /\ Len(heap) < MaxObjects
    /\ LET a == AllocInitializeItem(heap)
       IN  /\ heap' = a.heap
           /\ call' = [fn |-> "initializeItem", arg |-> 0, ret |-> a.ret,
                       heap |-> heap, table |-> table]
    /\ UNCHANGED <<clock, table, nextId, users, stats, req, log, item, last, due,
                   check, hist>>

CallCalculateNextReview(ref, q) ==
    /\ Len(heap) < MaxObjects
    /\ ref \in 1..Len(heap)
    /\ heap[ref].interval <= MaxInterval
    /\ LET a == AllocCalculateNextReview(heap, ref, q)
       IN  /\ heap' = a.heap
           /\ call' = [fn |-> "calculateNextReview", arg |-> ref, ret |-> a.ret,
                       heap |-> heap, table |-> table]
    /\ UNCHANGED <<clock, table, nextId, users, stats, req, log, item, last, due,
                   check, hist>>

NextClient ==
    \/ CallInitializeItem
    \/ \E ref \in 1..MaxObjects, q \in ClientQuality :
          CallCalculateNextReview(ref, q)
    \/ \E q \in ClientQuality \cap Quality : Review(q, MaxFnSteps)

SpecClient == Init /\ [][NextClient]_vars

(***************************************************************************)
(* GET /api/study/due among the reviews of two users, and the client's     *)
(* isDue.  The reviews are whole handlers.                                 *)
(***************************************************************************)
MaxDueReviews == 3

DueUsers   == {"u1", "u2"}

\* the reviews that fill the table are perfect recalls: the interval of a
\* card grows from 1 to 6 to 17 days with them
DueQuality == {5}

\* return new Date() >= nextReviewDate
isDue(nextReviewDate, now) == now >= nextReviewDate

\* variant: a row whose next_review is the instant of the query is left out
getDueFlashcards_Strict(tbl, userId, now) ==
    {[id |-> r.id, user_id |-> r.user_id, flashcard_id |-> r.flashcard_id,
      e_factor |-> r.e_factor, repetitions |-> r.repetitions,
      next_review |-> r.next_review, last_reviewed |-> r.last_reviewed] :
        r \in {x \in tbl : x.user_id = userId /\ x.next_review < now}}

\* .eq('user_id', userId).lte('next_review', now), each row mapped to the
\* progress object of the answer (interval_days is read from a column the
\* review handler does not write, and is left out)
getDueFlashcards(tbl, userId, now) ==
    {[id |-> r.id, user_id |-> r.user_id, flashcard_id |-> r.flashcard_id,
      e_factor |-> r.e_factor, repetitions |-> r.repetitions,
      next_review |-> r.next_review, last_reviewed |-> r.last_reviewed] :
        r \in {x \in tbl : x.user_id = userId /\ x.next_review <= now}}

InitDue ==
    /\ clock = 0
    /\ table = {}
    /\ nextId = 1
    /\ users = [u \in DueUsers |-> NewUser]
    /\ stats = {}
    /\ req = [r \in Reqs |-> IdleReq]
    /\ log = [k \in DueUsers \X Cards |-> <<>>]
    /\ item = initializeItem
    /\ last = NoLast
    /\ heap = <<>>
    /\ call = NoCall
    /\ due = IdleDue
    /\ check = IdleCheck
    /\ hist = NoHist

\* the query is built with the instant read at storage.ts:296 and sent
DueBegin(u) ==
    /\ due.pc \in {"idle", "done"}
    /\ due' = [pc |-> "query", user |-> u, now |-> clock, result |-> {},
               table |-> {}]
    /\ UNCHANGED <<clock, table, nextId, users, stats, req, log, item, last,
                   heap, call, check, hist>>

\* the query is answered from the table as it is then
DueAnswer ==
    /\ due.pc = "query"
    /\ due' = [due EXCEPT !.pc = "done", !.table = table,
                          !.result = getDueFlashcards(table, due.user, due.now)]
    /\ UNCHANGED <<clock, table, nextId, users, stats, req, log, item, last,
                   heap, call, check, hist>>

DueReview(u, c, q) ==
    /\ last.steps < MaxDueReviews
    /\ StudyProgress(u, c, q)
    /\ UNCHANGED <<clock, req, item, heap, call, due, check, hist>>

NextDue ==
    \/ \E u \in DueUsers : DueBegin(u)
    \/ DueAnswer
    \/ \E u \in DueUsers, c \in Cards, q \in DueQuality : DueReview(u, c, q)
    \/ Tick

SpecDue == InitDue /\ [][NextDue]_vars

(***************************************************************************)
(* GET /api/study/due among the awaits of review handlers that are handled *)
(* one after the other.                                                    *)
(***************************************************************************)
\* a review arrives while no other review is being handled
BeginAlone(r, u, c, q) ==
    /\ \A r2 \in Reqs : req[r2].pc \in {"idle", "done"}
    /\ Begin(r, u, c, q)

\* a failed and a perfect recall
DueStepQuality == {2, 5}

NextDueSteps ==
    \/ \E r \in Reqs, u \in Users, c \in Cards, q \in DueStepQuality :
          BeginAlone(r, u, c, q)
    \/ \E r \in Reqs, gap \in 0..1 : Get(r, gap)
    \/ \E r \in Reqs : Create(r)
    \/ \E r \in Reqs, gap \in 0..1 : Compute(r, gap)
    \/ \E r \in Reqs : Update(r)
    \/ \E r \in Reqs : GetUser(r)
    \/ \E r \in Reqs : UpdateUser(r)
    \/ \E r \in Reqs : UpdateTodayStats(r)
    \/ \E u \in Users : DueBegin(u)
    \/ DueAnswer
    \/ Tick

SpecDueSteps == Init /\ [][NextDueSteps]_vars

(***************************************************************************)
(* Two concurrent POST /api/study/progress handlers, one action for each   *)
(* await, with a failed and a perfect review: the clock advances only      *)
(* between the clock readings of a handler.                                *)
(***************************************************************************)
PairQuality == {0, 5}

NextPair ==
    \/ \E r \in Reqs :
          /\ req[r].pc = "idle"
          /\ \E u \in Users, c \in Cards, q \in PairQuality : Begin(r, u, c, q)
    \/ \E r \in Reqs, gap \in 0..1 : Get(r, gap)
    \/ \E r \in Reqs : Create(r)
    \/ \E r \in Reqs, gap \in 0..1 : Compute(r, gap)
    \/ \E r \in Reqs : Update(r)
    \/ \E r \in Reqs : GetUser(r)
    \/ \E r \in Reqs : UpdateUser(r)
    \/ \E r \in Reqs : UpdateTodayStats(r)

SpecPair == Init /\ [][NextPair]_vars

(***************************************************************************)
(* POST /api/streak/check, one action for each await, among reviews of the *)
(* same user (whole handlers) over several days.                           *)
(***************************************************************************)
MaxStreakClock == 5
MaxStreakReviews == 3

StreakQuality == {2, 5}

\* setHours(0, 0, 0, 0): the day of an instant
DayOf(t) == t \div DayTicks

\* the request passes authentication and getUser is sent; the answer and
\* the day of the check before it are kept as history
CheckBegin(u) ==
    /\ check.pc \in {"idle", "done"}
    /\ check' = [IdleCheck EXCEPT !.pc = "getUser", !.user = u]
    /\ hist' = IF check.pc = "done"
               THEN [hist EXCEPT !.prevToday = check.today,
                                 !.prevStreak = check.streak]
               ELSE hist
    /\ UNCHANGED <<clock, table, nextId, users, stats, req, log, item, last,
                   heap, call, due>>

\* the day starts: what was done today becomes what was done yesterday
NewDay(h, t, streak) ==
    IF DayOf(t + 1) = DayOf(t) THEN h
    ELSE [h EXCEPT !.reviewed = FALSE, !.checked = FALSE,
                   !.reviewedYesterday = h.reviewed,
                   !.streakYesterday = streak]

\* getUser answers and the handler decides: now, yesterday and today are
\* three readings of the clock, and at most one tick passes between them
\* (g = 1: after now, g = 2: after yesterday)
CheckGetUser(g) ==
    /\ check.pc = "getUser"
    /\ LET user        == users[check.user]
           elapsed     == IF g = 0 THEN 0 ELSE 1
           now         == clock
           yesterday   == DayOf(IF g = 1 THEN clock + 1 ELSE clock) - 1
           today       == DayOf(clock + elapsed)
           lastStudied == user.last_studied
       IN  /\ clock + elapsed <= MaxStreakClock
           /\ clock' = clock + elapsed
           /\ IF lastStudied = NoTime
              THEN /\ g = 0
                   /\ check' = [check EXCEPT !.pc = "updateUser",
                          !.user_row = {user}, !.today = today,
                          !.data = {[streak |-> 1, last_studied |-> now]},
                          !.streak = 1, !.streakUpdated = TRUE]
                   /\ hist' = hist
              ELSE IF DayOf(lastStudied) = today
              THEN /\ check' = [check EXCEPT !.pc = "done",
                          !.user_row = {user}, !.today = today,
                          !.streak = user.streak, !.streakUpdated = FALSE]
                   /\ hist' = [(IF g = 0 THEN hist
                                ELSE NewDay(hist, clock, user.streak))
                                   EXCEPT !.checked = TRUE]
              ELSE IF DayOf(lastStudied) = yesterday
              THEN /\ check' = [check EXCEPT !.pc = "updateUser",
                          !.user_row = {user}, !.today = today,
                          !.data = {[streak |-> user.streak + 1,
                                     last_studied |-> now]},
                          !.streak = user.streak + 1, !.streakUpdated = TRUE]
                   /\ hist' = IF g = 0 THEN hist
                              ELSE NewDay(hist, clock, user.streak)
              ELSE /\ check' = [check EXCEPT !.pc = "updateUser",
                          !.user_row = {user}, !.today = today,
                          !.data = {[streak |-> 1, last_studied |-> now]},
                          !.streak = 1, !.streakUpdated = TRUE,
                          !.streakBroken = TRUE]
                   /\ hist' = IF g = 0 THEN hist
                              ELSE NewDay(hist, clock, user.streak)
    /\ UNCHANGED <<table, nextId, users, stats, req, log, item, last, heap,
                   call, due>>

\* updateUser writes streak and last_studied, and the handler answers
CheckUpdateUser ==
    /\ check.pc = "updateUser"
    /\ LET d == CHOOSE x \in check.data : TRUE
       IN  users' = [users EXCEPT ![check.user] =
                        [@ EXCEPT !.streak = d.streak,
                                  !.last_studied = d.last_studied]]
    /\ check' = [check EXCEPT !.pc = "done"]
    /\ hist' = [hist EXCEPT !.checked = TRUE]
    /\ UNCHANGED <<clock, table, nextId, stats, req, log, item, last, heap,
                   call, due>>

\* a review of the user is handled
StreakReview(q) ==
    /\ last.steps < MaxStreakReviews
    /\ StudyProgress("u1", "c1", q)
    /\ hist' = [hist EXCEPT !.reviewed = TRUE]
    /\ UNCHANGED <<clock, req, item, heap, call, due, check>>

StreakTick ==
    /\ clock < MaxStreakClock
    /\ clock' = clock + 1
    /\ hist' = NewDay(hist, clock, users["u1"].streak)
    /\ UNCHANGED <<table, nextId, users, stats, req, log, item, last, heap,
                   call, due, check>>

NextStreak ==
    \/ \E u \in Users : CheckBegin(u)
    \/ \E g \in 0..2 : CheckGetUser(g)
    \/ CheckUpdateUser
    \/ \E q \in StreakQuality : StreakReview(q)
    \/ StreakTick

SpecStreak == Init /\ [][NextStreak]_vars

(***************************************************************************)
(* Properties                                                              *)
(***************************************************************************)
Reviewed == last.steps > 0
LastIn   == CHOOSE x \in last.progress : TRUE
SeqRow   == CHOOSE x \in table : x.user_id = "u1" /\ x.flashcard_id = "c1"

\* n * e100 / 100 rounded to the nearest integer, a tie going away from zero
RoundHalfUp(n, e100) == (n * e100 + 50) \div 100

\* C1: the easiness produced by a review, of any record with any quality, is
\* at least 1.3: the client's eFactor is not below 1.3 and the stored e_factor
\* is at least 130
C1_EasinessFloor ==
    Reviewed => /\ ~FLess(item.eFactor, Lit13)
                /\ \A r \in table : r.e_factor >= 130

\* quality 0 on a record at the floor leaves it at the floor
C1_Witness ==
    /\ Reviewed /\ last.quality = 0
    /\ LastIn.e_factor = 130 /\ SeqRow.e_factor = 130
    /\ item.eFactor = Lit13

\* C3: a review with quality below 3 leaves repetitions 0, whatever it was
C3_RepetitionReset ==
    (Reviewed /\ last.quality < 3) =>
        /\ item.repetitions = 0
        /\ SeqRow.repetitions = 0

C3_Witness ==
    /\ Reviewed /\ last.quality = 2
    /\ LastIn.repetitions = 5 /\ last.item.repetitions = 5
    /\ SeqRow.repetitions = 0 /\ item.repetitions = 0

\* C4: a review with quality 3 or more adds exactly one to repetitions
C4_RepetitionGrowth ==
    (Reviewed /\ last.quality >= 3) =>
        /\ item.repetitions = last.item.repetitions + 1
        /\ SeqRow.repetitions = LastIn.repetitions + 1

C4_Witness ==
    /\ Reviewed /\ last.quality = 3
    /\ LastIn.repetitions = 5 /\ SeqRow.repetitions = 6
    /\ last.item.repetitions = 5 /\ item.repetitions = 6

\* C5: after a review, repetitions 1 goes with an interval of exactly 1 and
\* repetitions 2 with an interval of exactly 6, whatever the interval and
\* easiness before
C5_IntervalFixedPoints ==
    Reviewed =>
        /\ item.repetitions = 1 => item.interval = 1
        /\ item.repetitions = 2 => item.interval = 6
        /\ SeqRow.repetitions = 1 => SeqRow.interval = 1
        /\ SeqRow.repetitions = 2 => SeqRow.interval = 6

\* two quality-5 reviews of the default record
C5_Witness ==
    /\ last.steps = 2 /\ last.quality = 5
    /\ last.item = calculateNextReview(initializeItem, 5)
    /\ LastIn.e_factor = 260 /\ LastIn.interval = 1 /\ LastIn.repetitions = 1
    /\ item.repetitions = 2 /\ item.interval = 6
    /\ SeqRow.repetitions = 2 /\ SeqRow.interval = 6

\* C6: a review with quality below 3 sets the interval to 1, whatever the
\* repetitions, interval and easiness before
C6_FailureReset ==
    (Reviewed /\ last.quality < 3) =>
        /\ item.interval = 1
        /\ SeqRow.interval = 1

C6_Witness ==
    /\ Reviewed /\ last.quality = 1
    /\ LastIn.interval = 85 /\ LastIn.repetitions = 5
    /\ last.item.interval = 85
    /\ SeqRow.interval = 1 /\ item.interval = 1

\* C7: from the third acceptable review in a row on, the new interval is the
\* old interval times the new easiness, rounded to the nearest day with a tie
\* going away from zero.  The easiness of the client's item is the binary64
\* value it holds and the product is taken exactly; the easiness of a stored
\* row is its e_factor in hundredths.
C7_IntervalGrowth ==
    (Reviewed /\ last.quality >= 3) =>
        /\ last.item.repetitions + 1 >= 3 =>
              item.interval = MathRound(FMulInt(item.eFactor, last.item.interval))
        /\ LastIn.repetitions + 1 >= 3 =>
              SeqRow.interval = RoundHalfUp(LastIn.interval, SeqRow.e_factor)

\* C8: from the default record on, repetitions >= 1 goes with an interval of
\* at least 1, and an interval of 0 only with a record that never had an
\* acceptable recall
C8_IntervalPositive ==
    /\ item.repetitions >= 1 => item.interval >= 1
    /\ item.interval = 0 => ~last.accepted
    /\ \A r \in table : /\ r.repetitions >= 1 => r.interval >= 1
                        /\ r.interval = 0 => ~last.accepted

\* a lapse after a streak of three
C8_Witness ==
    /\ last.accepted /\ last.quality < 3
    /\ LastIn.repetitions >= 3 /\ last.item.repetitions >= 3
    /\ SeqRow.interval = 1 /\ item.interval = 1

\* the log of a stored row
LogOf(r) == log[<<r.user_id, r.flashcard_id>>]

\* no request is between its lookup and its answer
Quiet == \A r \in Reqs : req[r].pc \in {"idle", "done"}

Fields(r) == [e_factor |-> r.e_factor, interval |-> r.interval,
              repetitions |-> r.repetitions]

\* the updates of qs applied one after the other to the default record
RECURSIVE Serial(_, _)
Serial(n, qs) ==
    IF n = 0 THEN [e_factor |-> 250, interval |-> 0, repetitions |-> 0]
    ELSE ServerUpdate(Serial(n - 1, qs), qs[n])

Orders(n) == {f \in [1..n -> 1..n] : \A i, j \in 1..n : f[i] = f[j] => i = j}

\* C2: once the reviews of a pair have been handled, its stored repetitions,
\* easiness and interval are those of applying the persisted updates one
\* after the other in some order
C2_SerialOutcome ==
    Quiet =>
        \A r \in table :
            \E f \in Orders(Len(LogOf(r))) :
                Fields(r) = Serial(Len(LogOf(r)),
                                   [i \in 1..Len(LogOf(r)) |-> LogOf(r)[f[i]].quality])

\* C9: the stored next_review of a reviewed row is the instant of its last
\* review plus its new interval in whole days, and not before that instant
C9_DueDate ==
    \A r \in table :
        LogOf(r) # <<>> =>
            LET t == LogOf(r)[Len(LogOf(r))].t
            IN  /\ r.next_review = AddDays(t, r.interval)
                /\ r.next_review >= t

\* a second acceptable review, computed after the clock has moved
C9_Witness ==
    \E r \in table :
        /\ Len(LogOf(r)) = 2
        /\ LogOf(r)[2].t > 0
        /\ r.interval = 6
        /\ r.next_review = LogOf(r)[2].t + 6 * DayTicks

\* C10: every stored row has next_review = last_reviewed + interval days
C10_DueFromLastReviewed ==
    \A r \in table : r.next_review = AddDays(r.last_reviewed, r.interval)

\* C11: a review with a quality outside 0..5 is accepted and gives what the
\* review with the quality clamped into 0..5 gives: the same repetitions,
\* interval, easiness and due date
C11_Clamping ==
    (Reviewed /\ InvalidQuality(last.quality)) =>
        /\ item = calculateNextReview(last.item, ClampQuality(last.quality))
        /\ last.status = 200
        /\ \A p \in last.progress :
              /\ Fields(SeqRow) = ServerUpdate(p, ClampQuality(last.quality))
              /\ SeqRow.next_review = AddDays(clock, SeqRow.interval)

\* C12: a pair has no row until a review of it is being handled; the row
\* created at the first review has easiness 2.5 (e_factor 250), interval 0,
\* repetitions 0, a next_review that is the instant of creation and no
\* last_reviewed, and the update is applied to that row afterwards
C12_LazyDefaults ==
    \A r \in table :
        LogOf(r) = <<>> =>
            /\ \E k \in Reqs : req[k].pc \in {"compute", "update"}
                               /\ \E p \in req[k].progress : p.id = r.id
            /\ r.e_factor = 250 /\ r.interval = 0 /\ r.repetitions = 0
            /\ r.next_review <= clock
            /\ r.last_reviewed = NoTime

\* C13: there is never more than one row for a (user, card) pair, and no
\* request that passed validation fails: two first reviews of a pair that
\* both found no row are both answered with success
C13_OneRowPerPair ==
    /\ \A r1, r2 \in table :
          (r1.user_id = r2.user_id /\ r1.flashcard_id = r2.flashcard_id)
              => r1 = r2
    /\ \A k \in Reqs : req[k].pc = "done" => req[k].status \in {200, 400, 401}

\* the objects that existed before the last call are as they were
FrameKept ==
    /\ Len(heap) >= Len(call.heap)
    /\ \A i \in 1..Len(call.heap) : heap[i] = call.heap[i]

\* C14: every call of initializeItem returns easiness 2.5, interval 0 and
\* repetitions 0 (an item has no last-reviewed field), whatever was called
\* before, in an object that no earlier call returned
C14_InitializeItem ==
    call.fn = "initializeItem" =>
        /\ heap[call.ret] = [eFactor |-> FDiv(25, 10), interval |-> 0,
                             repetitions |-> 0]
        /\ DOMAIN heap[call.ret] = {"eFactor", "interval", "repetitions"}
        /\ call.ret \notin 1..Len(call.heap)
        /\ FrameKept

\* a second default item, after the first one was reviewed
C14_Witness ==
    /\ call.fn = "initializeItem" /\ call.ret = 3
    /\ heap[1] = initializeItem /\ heap[2] # initializeItem
    /\ heap[3] = initializeItem

\* C16: calculateNextReview leaves its argument as it was, returns an object
\* other than its argument, and leaves the stored rows as they were
C16_NoMutation ==
    call.fn = "calculateNextReview" =>
        /\ heap[call.arg] = call.heap[call.arg]
        /\ call.ret # call.arg
        /\ call.ret \notin 1..Len(call.heap)
        /\ FrameKept
        /\ table = call.table

\* a review of quality 5 of a default item, with a row stored
C16_Witness ==
    /\ call.fn = "calculateNextReview" /\ call.arg = 1 /\ call.ret = 2
    /\ heap[1] = initializeItem
    /\ heap[2] = calculateNextReview(initializeItem, 5)
    /\ table # {}

\* C15: a record is due at an instant exactly when that instant is not before
\* its next_review, and the answer of the due query of a user is exactly the
\* rows of that user that are due at the instant of the query: no row of
\* another user and no row whose next_review is later
C15_DueQuery ==
    due.pc = "done" =>
        /\ {p.id : p \in due.result} =
              {r.id : r \in {x \in due.table : x.user_id = due.user
                                 /\ isDue(x.next_review, due.now)}}
        /\ \A p \in due.result : /\ p.user_id = due.user
                                 /\ p.next_review <= due.now
                                 /\ \E r \in due.table :
                                       /\ r.id = p.id
                                       /\ r.next_review = p.next_review
        /\ \A r \in due.table :
              isDue(r.next_review, due.now) <=> due.now >= r.next_review

\* the answer holds a row that falls due at the very instant of the query,
\* and leaves out a due row of the other user and a later row of the same user
C15_Witness ==
    /\ due.pc = "done"
    /\ \E p \in due.result : p.next_review = due.now
    /\ \E r \in due.table : r.user_id # due.user /\ r.next_review <= due.now
    /\ \E r \in due.table : r.user_id = due.user /\ r.next_review > due.now

\* C17: a first review with quality 5 at an instant day0 gives repetitions 1,
\* interval 1, easiness 2.6 and a next_review of day0 plus one day
C17_FirstReview ==
    (last.steps = 1 /\ last.quality = 5) =>
        /\ item = [eFactor |-> FDiv(26, 10), interval |-> 1, repetitions |-> 1]
        /\ Fields(SeqRow) = [e_factor |-> 260, interval |-> 1, repetitions |-> 1]
        /\ SeqRow.next_review = LogOf(SeqRow)[1].t + DayTicks

\* the first review made after the clock has moved
C17_Witness ==
    /\ last.steps = 1 /\ last.quality = 5
    /\ last.item = initializeItem
    /\ LogOf(SeqRow)[1].t = 1
    /\ SeqRow.e_factor = 260 /\ SeqRow.next_review = 1 + DayTicks

\* the easiness of the client's item to the nearest hundredth
Hundredths(x) == MathRound(FMul(x, 100))

\* C18: in three reviews of quality 5 from the default record the easiness
\* is greater after each review than before it (2.6, 2.7, 2.8 to the
\* hundredth), and after the third the interval is 6 times the new easiness,
\* rounded, which is 17
C18_ThreeFives ==
    (last.allFive /\ last.steps \in 1..3) =>
        /\ FLess(last.item.eFactor, item.eFactor)
        /\ Hundredths(item.eFactor) = 250 + 10 * last.steps
        /\ LastIn.e_factor < SeqRow.e_factor
        /\ SeqRow.e_factor = 250 + 10 * last.steps
        /\ last.steps = 3 =>
              /\ item.interval = MathRound(FMulInt(item.eFactor, 6))
              /\ item.interval = 17
              /\ SeqRow.interval = RoundHalfUp(6, SeqRow.e_factor)
              /\ SeqRow.interval = 17

C18_Witness ==
    /\ last.allFive /\ last.steps = 3
    /\ LastIn.e_factor = 270 /\ LastIn.interval = 6 /\ LastIn.repetitions = 2
    /\ SeqRow.e_factor = 280 /\ SeqRow.interval = 17 /\ SeqRow.repetitions = 3
    /\ item.interval = 17 /\ item.repetitions = 3

\* a review of quality 1 of a record with repetitions 3 and interval 15
Lapse ==
    /\ Reviewed /\ last.quality = 1
    /\ LastIn.repetitions = 3 /\ LastIn.interval = 15
    /\ last.item.repetitions = 3 /\ last.item.interval = 15

\* C19 as stated: a quality-1 review of any record with repetitions 3 and
\* interval 15 gives repetitions 0, interval 1 and an easiness lower than
\* before and not below 1.3
C19_LapseLowers ==
    Lapse =>
        /\ Fields(SeqRow) = [e_factor |-> SeqRow.e_factor, interval |-> 1,
                             repetitions |-> 0]
        /\ item.repetitions = 0 /\ item.interval = 1
        /\ SeqRow.e_factor < LastIn.e_factor /\ SeqRow.e_factor >= 130
        /\ FLess(item.eFactor, last.item.eFactor)
        /\ ~FLess(item.eFactor, Lit13)

\* C19 amended: a quality-1 review of any record with repetitions 3 and
\* interval 15 gives repetitions 0, interval 1 and an easiness not below 1.3
\* that is lower than before when the easiness before was above 1.3, and
\* stays 1.3 when it was 1.3
C19_LapseLowersAboveFloor ==
    Lapse =>
        /\ SeqRow.repetitions = 0 /\ SeqRow.interval = 1
        /\ item.repetitions = 0 /\ item.interval = 1
        /\ SeqRow.e_factor >= 130
        /\ ~FLess(item.eFactor, Lit13)
        /\ IF LastIn.e_factor > 130
           THEN SeqRow.e_factor < LastIn.e_factor
           ELSE SeqRow.e_factor = LastIn.e_factor
        /\ IF FLess(Lit13, last.item.eFactor)
           THEN FLess(item.eFactor, last.item.eFactor)
           ELSE item.eFactor = last.item.eFactor

\* the lapse of a record whose easiness is already 1.3
C19_Witness ==
    /\ Lapse
    /\ LastIn.e_factor = 130 /\ last.item.eFactor = Lit13
    /\ SeqRow.e_factor = 130 /\ item.eFactor = Lit13
    /\ SeqRow.repetitions = 0 /\ SeqRow.interval = 1

\* order and sign of two easiness adjustments given as sign and magnitude
DeltaLess(a, b) ==
    IF a.neg
    THEN IF b.neg THEN FLess(b.mag, a.mag)
         ELSE ~(a.mag = FZero /\ b.mag = FZero)
    ELSE ~b.neg /\ FLess(a.mag, b.mag)

DeltaNegative(d) == d.neg /\ d.mag # FZero
DeltaPositive(d) == ~d.neg /\ d.mag # FZero

\* C20 as stated: the adjustment of the easiness is positive for quality 5,
\* negative for every quality below 5, and smaller the lower the quality
C20_DeltaSigns ==
    Reviewed =>
        /\ last.quality = 5 => DeltaPositive(QualityDelta(last.quality))
        /\ last.quality < 5 =>
              /\ DeltaNegative(QualityDelta(last.quality))
              /\ DeltaLess(QualityDelta(last.quality),
                           QualityDelta(last.quality + 1))

\* C20 amended: the adjustment is positive for quality 5, zero for quality 4
\* and negative for qualities 0 to 3, and smaller the lower the quality; a
\* review moves the easiness accordingly: up with quality 5, not at all with
\* quality 4, and down, as far as the floor of 1.3 lets it, below 4
C20_DeltaSignsZeroAt4 ==
    Reviewed =>
        /\ last.quality = 5 =>
              /\ DeltaPositive(QualityDelta(5))
              /\ SeqRow.e_factor > LastIn.e_factor
              /\ FLess(last.item.eFactor, item.eFactor)
        /\ last.quality = 4 =>
              /\ QualityDelta(4).mag = FZero
              /\ SeqRow.e_factor = LastIn.e_factor
              /\ item.eFactor = last.item.eFactor
        /\ last.quality < 4 =>
              /\ DeltaNegative(QualityDelta(last.quality))
              /\ SeqRow.e_factor < LastIn.e_factor \/ SeqRow.e_factor = 130
              /\ FLess(item.eFactor, last.item.eFactor) \/ item.eFactor = Lit13
        /\ last.quality < 5 =>
              DeltaLess(QualityDelta(last.quality), QualityDelta(last.quality + 1))

\* a review of quality 4 leaves the easiness where it was
C20_Witness ==
    /\ Reviewed /\ last.quality = 4
    /\ QualityDelta(4) = [neg |-> FALSE, mag |-> FZero]
    /\ LastIn.e_factor = 244 /\ SeqRow.e_factor = 244
    /\ item.eFactor = last.item.eFactor

\* C21: every review answered with success has changed the row of its pair
\* by one application of the update to the row it found (or to the default
\* row it created), and no step removes a row from the table
C21_OncePerReview ==
    /\ []((Reviewed /\ last.status = 200) =>
              \A p \in last.progress :
                  Fields(SeqRow) = ServerUpdate(p, last.quality))
    /\ [][\A r \in table :
              \E x \in table' : /\ x.id = r.id
                                /\ x.user_id = r.user_id
                                /\ x.flashcard_id = r.flashcard_id]_vars

\* C27: a review whose update of the row was not persisted is answered as
\* failed and changes neither the user's daily_progress nor the stats
C27_BookkeepingTiedToUpdate ==
    [][(/\ last'.steps = last.steps + 1
        /\ last'.status # 400
        /\ ~last'.persisted) =>
            /\ last'.status # 200
            /\ users' = users
            /\ stats' = stats]_vars

C23_ClientServerAgree ==
    Reviewed =>
        /\ item.repetitions = SeqRow.repetitions
        /\ item.interval = SeqRow.interval
        /\ Hundredths(item.eFactor) = SeqRow.e_factor

\* C24: from the default record, repetitions >= 2 goes with an interval of
\* at least 6, and an acceptable review of a record with repetitions >= 2
\* gives an interval strictly longer than the one before
C24_IntervalGrows ==
    /\ item.repetitions >= 2 => item.interval >= 6
    /\ \A r \in table : r.repetitions >= 2 => r.interval >= 6
    /\ (Reviewed /\ last.quality >= 3) =>
          /\ last.item.repetitions >= 2 => item.interval > last.item.interval
          /\ LastIn.repetitions >= 2 => SeqRow.interval > LastIn.interval

\* the slowest growth: a third acceptable review at the floor of the easiness
C24_Witness ==
    /\ Reviewed /\ last.quality = 3
    /\ LastIn.repetitions = 2 /\ LastIn.interval = 6 /\ LastIn.e_factor = 130
    /\ SeqRow.interval = 8 /\ SeqRow.e_factor = 130
    /\ last.item.interval = 6 /\ item.interval = 8

\* C25: in the answer of a due query that read the instant now, a row last
\* reviewed at t with interval n >= 1 is absent when now < t + n days (so
\* also when now = t) and present when now >= t + n days; a row created and
\* not yet updated falls due at the instant of its creation and is present
\* in every answer whose instant is not before it
C25_DueAroundReview ==
    (due.pc = "done" /\ due.table = table) =>
        \A x \in table :
            x.user_id = due.user =>
                LET returned == \E p \in due.result : p.id = x.id
                    n == x.interval
                IN  IF LogOf(x) = <<>>
                    THEN /\ x.next_review <= clock
                         /\ due.now >= x.next_review => returned
                    ELSE LET t == LogOf(x)[Len(LogOf(x))].t
                         IN  /\ n >= 1
                             /\ due.now < AddDays(t, n) => ~returned
                             /\ due.now = t => ~returned
                             /\ due.now >= AddDays(t, n) => returned

\* an answer that holds a card reviewed one interval ago and a card whose
\* row was just created, its first review still being handled
C25_Witness ==
    /\ due.pc = "done" /\ due.table = table
    /\ \E x, y \in table :
          /\ LogOf(x) # <<>> /\ LogOf(y) = <<>>
          /\ x.interval = 1
          /\ due.now = AddDays(LogOf(x)[Len(LogOf(x))].t, 1)
          /\ \E p \in due.result : p.id = x.id
          /\ \E p \in due.result : p.id = y.id

\* C26: a step that answers a request 401 or 400 leaves the table, the
\* users (daily_progress, last_studied) and the stats as they were, and a
\* request is answered without passing through the handler only in that way
C26_RejectedChangesNothing ==
    [][\A r \in Reqs :
          (req[r].pc = "idle" /\ req'[r].pc = "done") =>
              /\ req'[r].status \in {400, 401}
              /\ table' = table /\ nextId' = nextId
              /\ users' = users /\ stats' = stats /\ log' = log]_vars

\* a request answered 400 after a review of the same user was handled
C26_Witness ==
    /\ req[1].pc = "done" /\ req[1].status = 200
    /\ req[2].pc = "done" /\ req[2].status = 400
    /\ Cardinality(table) = 1
    /\ users["u1"].daily_progress = 1
    /\ Cardinality(stats) = 1

\* the requests answered with success
Succeeded == {r \in Reqs : req[r].pc = "done" /\ req[r].status = 200}

\* C28: once the requests are answered, the user's daily_progress is the
\* number of reviews that were answered with success
C28_DailyProgressCounts ==
    Quiet => users["u1"].daily_progress = Cardinality(Succeeded)

\* C29: a finished streak check, for the user row it read and the day it
\* took as today: never studied gives streak 1; last studied today leaves the
\* streak (streakUpdated false); last studied the day before gives streak + 1;
\* last studied earlier gives streak 1 (streakBroken); an updating check
\* leaves a last_studied no older than its own now, and a check on the same
\* day as the check before it answers the same streak
C29_StreakTransitions ==
    check.pc = "done" =>
        \A u \in check.user_row :
            LET cur == users[check.user]
                lastDay == DayOf(u.last_studied)
            IN  /\ u.last_studied = NoTime =>
                      /\ check.streak = 1 /\ cur.streak = 1
                      /\ check.streakUpdated
                /\ (u.last_studied # NoTime /\ lastDay = check.today) =>
                      /\ check.streak = u.streak /\ cur.streak = u.streak
                      /\ ~check.streakUpdated
                /\ (u.last_studied # NoTime /\ lastDay = check.today - 1) =>
                      /\ check.streak = u.streak + 1
                      /\ cur.streak = u.streak + 1
                      /\ check.streakUpdated /\ ~check.streakBroken
                /\ (u.last_studied # NoTime /\ lastDay < check.today - 1) =>
                      /\ check.streak = 1 /\ cur.streak = 1
                      /\ check.streakUpdated /\ check.streakBroken
                /\ check.streakUpdated =>
                      \A d \in check.data : cur.last_studied >= d.last_studied
                /\ hist.prevToday = check.today =>
                      check.streak = hist.prevStreak

\* C30: once the user has both studied and been checked on a day, in either
\* order, and no check is in progress, the streak is at least 1, and it is
\* one more than at the end of the day before if the user studied then
C30_StreakAfterReviews ==
    (hist.reviewed /\ hist.checked /\ check.pc \in {"idle", "done"}) =>
        /\ users["u1"].streak >= 1
        /\ hist.reviewedYesterday =>
              users["u1"].streak = hist.streakYesterday + 1
====
